---------------------------- MODULE Spec2Model ----------------------------
(***************************************************************************)
(* A model of group_theory/group.py: the classes Group, NamedGroup and     *)
(* GroupElement.                                                           *)
(*                                                                         *)
(* Python values are records tagged by their type in field k, so that two  *)
(* values of different types compare unequal, as they do in Python.  A     *)
(* Group object lives in the heap `groups` and is referred to by its index *)
(* there; a GroupElement holds such a reference.  A callable (the          *)
(* operation of a group, the action of a semidirect product) is a          *)
(* descriptor that Apply / ApplyAction evaluate: the code never inspects a *)
(* callable, it only calls it.                                             *)
(***************************************************************************)
EXTENDS Integers, Sequences, FiniteSets, TLC

VARIABLES
    groups,   \* the heap of Group objects: a sequence of group records
    ret,      \* the last completed call: its name, receiver, arguments, outcome
    pc,       \* "idle", or "order" while GroupElement.order() is in its loop
    self,     \* GroupElement.order(): the receiver
    power,    \* GroupElement.order(): local `power`
    order     \* GroupElement.order(): local `order`

vars == <<groups, ret, pc, self, power, order>>

(***************************************************************************)
(* Bounds of the model.                                                    *)
(***************************************************************************)
\* the largest label count of a group drawn at construction
MaxN == 4
\* the most factors handed to direct_product
MaxFactors == 2
\* how many labels of a group (the leading ones of its list) a call takes as arguments
MaxOperands == 2

(***************************************************************************)
(* Python values.                                                          *)
(***************************************************************************)
None == [k |-> "None"]
NotImplemented == [k |-> "NotImplemented"]
\* a class instance that has no attribute of the name asked for
NoAttr == [k |-> "no attribute"]
I(n) == [k |-> "int", n |-> n]
B(b) == [k |-> "bool", b |-> b]
Str(s) == [k |-> "str", s |-> s]
T(s) == [k |-> "tuple", v |-> s]
List(s) == [k |-> "list", v |-> s]
GroupRef(g) == [k |-> "Group", group |-> g]

\* GroupElement.__init__
GroupElement(element, group) ==
    [k |-> "GroupElement", element |-> element, group |-> group]

\* the outcome of a call: a returned value, or a raised exception
Return(v) == [val |-> v, exc |-> "", msg |-> None]
Raise(e, m) == [val |-> None, exc |-> e, msg |-> m]

Max(a, b) == IF a >= b THEN a ELSE b
Range(s) == {s[i] : i \in DOMAIN s}

(***************************************************************************)
(* Callables.  The operations are the lambdas of the tests,                *)
(*   lambda a, b: (a + b) % n      lambda a, b: max(a, b)                  *)
(* one more over the same labels, lambda a, b: (a - b) % n, and the two    *)
(* closures direct_product and semidirect_product build.                   *)
(***************************************************************************)
Lambda(fn, n) == [fn |-> fn, n |-> n, parts |-> <<>>, act |-> None]

\* the closure `operation` of direct_product over the factors' operations
DirectOperation(ops) == [fn |-> "direct", n |-> 0, parts |-> ops, act |-> None]

\* the closure `operation` of semidirect_product over N, H and action
SemidirectOperation(opN, opH, action) ==
    [fn |-> "semidirect", n |-> 0, parts |-> <<opN, opH>>, act |-> action]

\* an action(h, n) of a semidirect product: the test's
\*   n if h == 0 else (4 - n) % 4     (for N of any order m: (m - n) % m)
\* and the trivial one, lambda h, n: n
Action(fn, m) == [fn |-> fn, n |-> m]

ApplyAction(action, h, n) ==
    IF action.fn = "negate" /\ h # I(0)
    THEN I((action.n - n.n) % action.n)
    ELSE n

\* a call of a lambda on two int labels
ApplyLambda(op, a, b) ==
    CASE op.fn = "add" -> I((a.n + b.n) % op.n)
      [] op.fn = "sub" -> I((a.n - b.n) % op.n)
      [] op.fn = "max" -> I(Max(a.n, b.n))

\* a call op(a, b) of a group's operation on two labels
Apply(op, a, b) ==
    CASE op.fn = "direct" ->
            T([i \in DOMAIN op.parts |-> ApplyLambda(op.parts[i], a.v[i], b.v[i])])
      [] op.fn = "semidirect" ->
            T(<<ApplyLambda(op.parts[1], a.v[1], ApplyAction(op.act, a.v[2], b.v[1])),
                ApplyLambda(op.parts[2], a.v[2], b.v[2])>>)
      [] OTHER -> ApplyLambda(op, a, b)

(***************************************************************************)
(* Group                                                                   *)
(***************************************************************************)
\* Group.__init__ and NamedGroup.__init__: a plain Group has no attribute `name`
NewGroup(cls, element_values, operation, identity_value, name) ==
    [cls |-> cls, element_values |-> element_values, operation |-> operation,
     identity_value |-> identity_value, name |-> name]

Group(element_values, operation, identity_value) ==
    NewGroup("Group", element_values, operation, identity_value, NoAttr)

NamedGroup(element_values, operation, identity_value, name) ==
    NewGroup("NamedGroup", element_values, operation, identity_value, name)

\* Group.operation
Operation(g, a, b) == Apply(g.operation, a, b)

\* the test of line 35 for one candidate e
IsIdentityOf(g, e) ==
    \A i \in DOMAIN g.element_values :
        LET x == g.element_values[i]
        IN  Operation(g, e, x) = x /\ Operation(g, x, e) = x

\* a faulty search: the first label of the list is taken for the identity
IdentitySearchFirstLabel(g) == g.element_values[1]

\* the search of Group.identity (lines 34-37): the first label of the list that
\* passes the test, None when the loop ends without a break
IdentitySearch(g) ==
    LET hits == {i \in DOMAIN g.element_values : IsIdentityOf(g, g.element_values[i])}
    IN  IF hits = {} THEN None
        ELSE g.element_values[CHOOSE i \in hits : \A j \in hits : i <= j]

\* a faulty cache: identity() searches whatever identity_value holds
IdentityValueSearchedAnew(g) == IdentitySearch(g)

\* _identity_value once Group.identity has run
IdentityValue(g) ==
    IF g.identity_value = None THEN IdentitySearch(g) ELSE g.identity_value

\* the group object once Group.identity has run
AfterIdentity(g) == [g EXCEPT !.identity_value = IdentityValue(g)]

\* a faulty inverse: the label need compose to the identity on the right only
InverseOfOneSided(g, gid, a) ==
    LET e == IdentityValue(g)
        hits == {i \in DOMAIN g.element_values : Operation(g, a, g.element_values[i]) = e}
    IN  IF hits = {} THEN Raise("ValueError", a)
        ELSE Return(GroupElement(
                 g.element_values[CHOOSE i \in hits : \A j \in hits : i <= j], gid))

\* Group.inverse: the first label of the list that composes to the identity with
\* a on both sides; identity() runs in the loop's first test and caches
InverseOf(g, gid, a) ==
    LET e == IdentityValue(g)
        hits == {i \in DOMAIN g.element_values :
                    /\ Operation(g, a, g.element_values[i]) = e
                    /\ Operation(g, g.element_values[i], a) = e}
    IN  IF hits = {} THEN Raise("ValueError", a)
        ELSE Return(GroupElement(
                 g.element_values[CHOOSE i \in hits : \A j \in hits : i <= j], gid))

\* Group.order
OrderOf(g) == Len(g.element_values)

\* Group.is_abelian
IsAbelian(g) ==
    \A i, j \in DOMAIN g.element_values :
        Operation(g, g.element_values[i], g.element_values[j])
            = Operation(g, g.element_values[j], g.element_values[i])

\* Group.elements
ElementsOf(g, gid) ==
    List([i \in DOMAIN g.element_values |-> GroupElement(g.element_values[i], gid)])

\* a faulty __eq__: the lists of labels are compared, not the sets
GroupDunderEqInOrder(gs, gid, other) ==
    IF other.k # "Group" THEN NotImplemented
    ELSE LET a == gs[gid]
             b == gs[other.group]
         IN  IF \/ a.element_values # b.element_values
                \/ a.identity_value # b.identity_value
             THEN B(FALSE)
             ELSE B(\A i, j \in DOMAIN a.element_values :
                        Apply(a.operation, a.element_values[i], a.element_values[j])
                            = Apply(b.operation, a.element_values[i], a.element_values[j]))

\* Group.__eq__(self, other), self being the Group object gs[gid]
GroupDunderEq(gs, gid, other) ==
    IF other.k # "Group" THEN NotImplemented
    ELSE LET a == gs[gid]
             b == gs[other.group]
         IN  IF \/ Range(a.element_values) # Range(b.element_values)
                \/ a.identity_value # b.identity_value
             THEN B(FALSE)
             ELSE B(\A i, j \in DOMAIN a.element_values :
                        Apply(a.operation, a.element_values[i], a.element_values[j])
                            = Apply(b.operation, a.element_values[i], a.element_values[j]))

\* GroupElement.__eq__(self, other): reading other.element raises AttributeError
\* when other has no such attribute; `and` then compares the two Group objects
ElementDunderEq(gs, x, other) ==
    IF other.k # "GroupElement" THEN Raise("AttributeError", Str("element"))
    ELSE IF x.element # other.element THEN Return(B(FALSE))
    ELSE Return(GroupDunderEq(gs, x.group, GroupRef(other.group)))

\* type(a).__eq__(a, b): the two classes of the module, and the built-in types,
\* which answer NotImplemented to an operand of another type
DunderEq(gs, a, b) ==
    CASE a.k = "Group" -> Return(GroupDunderEq(gs, a.group, b))
      [] a.k = "GroupElement" -> ElementDunderEq(gs, a, b)
      [] OTHER -> Return(IF a.k = b.k THEN B(a = b) ELSE NotImplemented)

\* Python's a == b: a's __eq__, on NotImplemented b's, on NotImplemented again
\* the comparison of identities (a is b)
PyEq(gs, a, b) ==
    LET first == DunderEq(gs, a, b)
        second == DunderEq(gs, b, a)
    IN  IF first.exc # "" \/ first.val # NotImplemented THEN first
        ELSE IF second.exc # "" \/ second.val # NotImplemented THEN second
        ELSE Return(B(a = b))

\* type(a).__ne__(a, b): GroupElement defines it as `not self.__eq__(other)`;
\* Group and the built-in types inherit object.__ne__, which inverts __eq__
\* unless that answers NotImplemented
DunderNe(gs, a, b) ==
    LET eq == DunderEq(gs, a, b)
    IN  IF eq.exc # "" \/ eq.val = NotImplemented THEN eq
        ELSE Return(B(~eq.val.b))

\* Python's a != b
PyNe(gs, a, b) ==
    LET first == DunderNe(gs, a, b)
        second == DunderNe(gs, b, a)
    IN  IF first.exc # "" \/ first.val # NotImplemented THEN first
        ELSE IF second.exc # "" \/ second.val # NotImplemented THEN second
        ELSE Return(B(a # b))

(***************************************************************************)
(* GroupElement                                                            *)
(***************************************************************************)
\* GroupElement.__mul__: the left operand's group is the result's
Mul(gs, x, y) ==
    GroupElement(Operation(gs[x.group], x.element, y.element), x.group)

\* the loop of __pow__ for n > 0 (lines 119-122): n - 1 times result *= self
RECURSIVE PowLoop(_, _, _)
PowLoop(gs, x, n) ==
    IF n <= 1 THEN x ELSE Mul(gs, PowLoop(gs, x, n - 1), x)

\* GroupElement.inverse
ElementInverse(gs, x) == InverseOf(gs[x.group], x.group, x.element)

\* a faulty __pow__: a negative power is taken of self, not of its inverse
PowOfSelf(gs, x, n) ==
    IF n = 0 THEN Return(GroupElement(IdentityValue(gs[x.group]), x.group))
    ELSE IF n > 0 THEN Return(PowLoop(gs, x, n))
    ELSE Return(PowLoop(gs, x, -n))

\* GroupElement.__pow__
Pow(gs, x, n) ==
    IF n = 0 THEN Return(GroupElement(IdentityValue(gs[x.group]), x.group))
    ELSE IF n > 0 THEN Return(PowLoop(gs, x, n))
    ELSE LET inv == ElementInverse(gs, x)
         IN  IF inv.exc # "" THEN inv ELSE Return(PowLoop(gs, inv.val, -n))

\* whether __pow__ ran Group.identity() (directly, or inside Group.inverse)
PowCallsIdentity(n) == n <= 0

\* the heap once Group.identity() has run on gs[gid]
Touch(gs, gid) == [gs EXCEPT ![gid] = AfterIdentity(gs[gid])]

\* the loop test of GroupElement.order (line 144), `power != self.group.identity()`,
\* evaluated on the heap identity() leaves
OrderLoopTest(gs, p) ==
    LET after == Touch(gs, p.group)
    IN  PyNe(after, p, GroupElement(after[p.group].identity_value, p.group)).val.b

(***************************************************************************)
(* The groups a program constructs.                                        *)
(***************************************************************************)
Ascending(n) == [i \in 1..n |-> I(i - 1)]
Descending(n) == [i \in 1..n |-> I(n - i)]

\* the plain groups over the labels 0..n-1: in either listing order, under each
\* lambda, with or without an identity_value (0, or 1: the tests' G5 gives a
\* group an identity_value that is not its identity)
GroupsOver(n) ==
    {Group(ev, Lambda(fn, n), idv) :
        ev \in {Ascending(n), Descending(n)},
        fn \in {"add", "sub", "max"}, idv \in {None, I(0), I(1)}}

PlainGroups == UNION {GroupsOver(n) : n \in 2..MaxN}

\* the fixtures of the tests (C4, C2, C3: lines 6, 10, 128), with the identity
\* given or left to the search, and variants of them: a list in another order,
\* an identity_value that is not the identity, an operation without identity,
\* NamedGroups with and without a name
Cyclic(n, identity_value) == Group(Ascending(n), Lambda("add", n), identity_value)

FirstFactors ==
    {Cyclic(4, None),
     Group(Descending(2), Lambda("add", 2), None),
     Group(Ascending(2), Lambda("add", 2), I(1)),
     Group(Ascending(3), Lambda("sub", 3), None),
     NamedGroup(Ascending(3), Lambda("add", 3), I(0), Str("C3")),
     NamedGroup(Ascending(2), Lambda("add", 2), None, None)}

SecondFactors ==
    {Cyclic(3, None),
     NamedGroup(Ascending(2), Lambda("add", 2), I(0), Str("C2"))}

\* the record of a call: its name, the Group object it is on, its arguments, its outcome
Call(name, g, args, out) == [call |-> name, g |-> g, args |-> args, out |-> out]

NoCall == Call("", 0, <<>>, Return(None))

InitLocals ==
    /\ ret = NoCall
    /\ pc = "idle"
    /\ self = None
    /\ power = None
    /\ order = 0

\* two groups of the fixtures, for the constructions
Init ==
    /\ groups \in {<<a, b>> : a \in FirstFactors, b \in SecondFactors}
    /\ InitLocals

\* two plain groups: over the same labels, or the second one of the fixtures
InitCalls ==
    /\ \E n \in 2..MaxN :
          groups \in {<<a, b>> : a \in GroupsOver(n),
                                b \in GroupsOver(n) \cup {Cyclic(2, I(0)), Cyclic(3, I(0))}}
    /\ InitLocals

\* the caller is between two calls, the value of the last one let go
Idle == pc = "idle" /\ ret = NoCall

\* the labels a call takes as arguments: the leading ones of the group's list
Operands(g) ==
    {g.element_values[i] : i \in {j \in DOMAIN g.element_values : j <= MaxOperands}}

ElementOperands(gid) == {GroupElement(a, gid) : a \in Operands(groups[gid])}

\* the exponents of the exponent laws
Exponents == (-2)..3

(***************************************************************************)
(* The calls on a Group.                                                   *)
(***************************************************************************)
\* G.elements()
CallElements(g) ==
    /\ Idle
    /\ ret' = Call("elements", g, <<>>, Return(ElementsOf(groups[g], g)))
    /\ UNCHANGED <<groups, pc, self, power, order>>

\* G.operation(a, b)
CallOperation(g, a, b) ==
    /\ Idle
    /\ ret' = Call("operation", g, <<a, b>>, Return(Operation(groups[g], a, b)))
    /\ UNCHANGED <<groups, pc, self, power, order>>

\* G.identity()
CallIdentity(g) ==
    /\ Idle
    /\ groups' = Touch(groups, g)
    /\ ret' = Call("identity", g, <<>>,
                   Return(GroupElement(IdentityValue(groups[g]), g)))
    /\ UNCHANGED <<pc, self, power, order>>

\* G.inverse(a)
CallInverse(g, a) ==
    /\ Idle
    /\ groups' = Touch(groups, g)
    /\ ret' = Call("inverse", g, <<a>>, InverseOf(groups[g], g, a))
    /\ UNCHANGED <<pc, self, power, order>>

\* G.order()
CallOrder(g) ==
    /\ Idle
    /\ ret' = Call("order", g, <<>>, Return(I(OrderOf(groups[g]))))
    /\ UNCHANGED <<groups, pc, self, power, order>>

\* G.is_abelian()
CallIsAbelian(g) ==
    /\ Idle
    /\ ret' = Call("is_abelian", g, <<>>, Return(B(IsAbelian(groups[g]))))
    /\ UNCHANGED <<groups, pc, self, power, order>>

\* G == v and G != v, for v another Group, or a value that is no Group
CallGroupCompare(g, v, ne) ==
    /\ Idle
    /\ ret' = IF ne THEN Call("!=", g, <<GroupRef(g), v>>, PyNe(groups, GroupRef(g), v))
                    ELSE Call("==", g, <<GroupRef(g), v>>, PyEq(groups, GroupRef(g), v))
    /\ UNCHANGED <<groups, pc, self, power, order>>

(***************************************************************************)
(* The calls on a GroupElement.                                            *)
(***************************************************************************)
\* x * y
CallMul(x, y) ==
    /\ Idle
    /\ ret' = Call("*", x.group, <<x, y>>, Return(Mul(groups, x, y)))
    /\ UNCHANGED <<groups, pc, self, power, order>>

\* x ** n
CallPow(x, n) ==
    /\ Idle
    /\ groups' = IF PowCallsIdentity(n) THEN Touch(groups, x.group) ELSE groups
    /\ ret' = Call("**", x.group, <<x, I(n)>>, Pow(groups, x, n))
    /\ UNCHANGED <<pc, self, power, order>>

\* x.inverse()
CallElementInverse(x) ==
    /\ Idle
    /\ groups' = Touch(groups, x.group)
    /\ ret' = Call("x.inverse", x.group, <<x>>, ElementInverse(groups, x))
    /\ UNCHANGED <<pc, self, power, order>>

\* x == v and x != v, for v another GroupElement, or a value that is none
CallElementCompare(x, v, ne) ==
    /\ Idle
    /\ ret' = IF ne THEN Call("!=", x.group, <<x, v>>, PyNe(groups, x, v))
                    ELSE Call("==", x.group, <<x, v>>, PyEq(groups, x, v))
    /\ UNCHANGED <<groups, pc, self, power, order>>

\* a faulty order(): the count starts at 0
ElementOrderStartAtZero(x) ==
    /\ Idle
    /\ pc' = "order"
    /\ self' = x
    /\ power' = x
    /\ order' = 0
    /\ ret' = Call("x.order", x.group, <<x>>, Return(None))
    /\ UNCHANGED groups

\* x.order(), lines 142-143: power = self; order = 1
ElementOrderStart(x) ==
    /\ Idle
    /\ pc' = "order"
    /\ self' = x
    /\ power' = x
    /\ order' = 1
    /\ ret' = Call("x.order", x.group, <<x>>, Return(None))
    /\ UNCHANGED groups

\* x.order(), lines 144-146: the test holds; power *= self; order += 1.
\* A run of the loop that has seen as many powers as the group has labels
\* without meeting the identity repeats one of them, and never ends: the
\* model leaves it there.
ElementOrderBody ==
    /\ pc = "order"
    /\ OrderLoopTest(groups, power)
    /\ order <= Len(groups[self.group].element_values)
    /\ groups' = Touch(groups, self.group)
    /\ power' = Mul(groups, power, self)
    /\ order' = order + 1
    /\ UNCHANGED <<ret, pc, self>>

\* x.order(), lines 144 and 147: the test fails; return order
ElementOrderReturn ==
    /\ pc = "order"
    /\ ~OrderLoopTest(groups, power)
    /\ groups' = Touch(groups, self.group)
    /\ ret' = [ret EXCEPT !.out = Return(I(order))]
    /\ pc' = "idle"
    /\ self' = None
    /\ power' = None
    /\ order' = 0

\* the caller lets go of the value a call returned (or of the exception it
\* raised) and goes on to its next statement
Discard ==
    /\ pc = "idle"
    /\ ret # NoCall
    /\ ret' = NoCall
    /\ UNCHANGED <<groups, pc, self, power, order>>

(***************************************************************************)
(* The constructions.                                                      *)
(***************************************************************************)
\* cartesian_product of direct_product (lines 60-66): the first iterable's
\* items vary slowest
RECURSIVE CartesianProduct(_)
CartesianProduct(iterables) ==
    IF iterables = <<>> THEN << <<>> >>
    ELSE LET first == iterables[1]
             rest == CartesianProduct(Tail(iterables))
             m == Len(rest)
         IN  [j \in 1..(Len(first) * m) |->
                 <<first[((j - 1) \div m) + 1]>> \o rest[((j - 1) % m) + 1]]

\* the heap once identity() has run on every group of the list
TouchAll(gs, factors) ==
    [g \in DOMAIN gs |->
        IF g \in Range(factors) THEN AfterIdentity(gs[g]) ELSE gs[g]]

\* a faulty direct_product: every component is composed by the first factor's operation
DirectProductOfFirstOperation(cls, gs, factors) ==
    LET tuples == CartesianProduct([i \in DOMAIN factors |-> gs[factors[i]].element_values])
        element_values == [j \in DOMAIN tuples |-> T(tuples[j])]
        operation == DirectOperation([i \in DOMAIN factors |-> gs[factors[1]].operation])
        identity_value == T([i \in DOMAIN factors |-> IdentityValue(gs[factors[i]])])
    IN  NewGroup(cls, element_values, operation, identity_value,
                 IF cls = "NamedGroup" THEN None ELSE NoAttr)

\* Group.direct_product(*groups), as the class method of cls: the object it returns
DirectProductOf(cls, gs, factors) ==
    LET tuples == CartesianProduct([i \in DOMAIN factors |-> gs[factors[i]].element_values])
        element_values == [j \in DOMAIN tuples |-> T(tuples[j])]
        operation == DirectOperation([i \in DOMAIN factors |-> gs[factors[i]].operation])
        identity_value == T([i \in DOMAIN factors |-> IdentityValue(gs[factors[i]])])
    IN  NewGroup(cls, element_values, operation, identity_value,
                 IF cls = "NamedGroup" THEN None ELSE NoAttr)

\* getattr(group, 'name', f"Group{i}"), i counting the factors from 0
NameOrPlaceholder(g, i) ==
    IF g.name = NoAttr THEN Str("Group" \o ToString(i)) ELSE g.name

\* " x ".join(names), the separator being the multiplication sign: TypeError
\* when an item is no str
RECURSIVE Join(_)
Join(names) ==
    IF \E i \in DOMAIN names : names[i].k # "str" THEN Raise("TypeError", None)
    ELSE IF Len(names) = 1 THEN Return(names[1])
    ELSE Return(Str(names[1].s \o " x " \o Join(Tail(names)).val.s))

\* NamedGroup.direct_product(*groups): the outcome, the NamedGroup it returns
\* being in the outcome's place of a value
NamedDirectProductOf(gs, factors) ==
    LET result == DirectProductOf("NamedGroup", gs, factors)
        name == Join([i \in DOMAIN factors |-> NameOrPlaceholder(gs[factors[i]], i - 1)])
    IN  IF name.exc # "" THEN name
        ELSE Return(NamedGroup(result.element_values, result.operation,
                               result.identity_value, name.val))

\* a faulty semidirect_product: H's component does not act on N's
SemidirectProductOfNoAction(gs, N, H, action) ==
    LET pairs == CartesianProduct(<<gs[N].element_values, gs[H].element_values>>)
    IN  Group([j \in DOMAIN pairs |-> T(pairs[j])],
              SemidirectOperation(gs[N].operation, gs[H].operation, Action("trivial", 0)), None)

\* Group.semidirect_product(N, H, action): the object it returns
SemidirectProductOf(gs, N, H, action) ==
    LET pairs == CartesianProduct(<<gs[N].element_values, gs[H].element_values>>)
    IN  Group([j \in DOMAIN pairs |-> T(pairs[j])],
              SemidirectOperation(gs[N].operation, gs[H].operation, action), None)

\* the lists of factors a construction is given
RECURSIVE FactorLists(_)
FactorLists(n) ==
    IF n = 0 THEN {<<>>}
    ELSE LET shorter == FactorLists(n - 1)
         IN  shorter \cup {<<g>> \o fs : g \in 1..2, fs \in {f \in shorter : Len(f) = n - 1}}

\* P = Group.direct_product(*factors); a run constructs one group
DirectProduct(factors) ==
    /\ Idle
    /\ Len(groups) = 2
    /\ groups' = Append(TouchAll(groups, factors),
                        DirectProductOf("Group", groups, factors))
    /\ ret' = Call("Group.direct_product", 3, [i \in DOMAIN factors |-> GroupRef(factors[i])],
                   Return(GroupRef(3)))
    /\ UNCHANGED <<pc, self, power, order>>

\* P = NamedGroup.direct_product(*factors)
NamedDirectProduct(factors) ==
    /\ Idle
    /\ Len(groups) = 2
    /\ LET out == NamedDirectProductOf(groups, factors)
       IN  /\ groups' = IF out.exc # "" THEN TouchAll(groups, factors)
                        ELSE Append(TouchAll(groups, factors), out.val)
           /\ ret' = Call("NamedGroup.direct_product", IF out.exc # "" THEN 0 ELSE 3,
                          [i \in DOMAIN factors |-> GroupRef(factors[i])],
                          IF out.exc # "" THEN out ELSE Return(GroupRef(3)))
    /\ UNCHANGED <<pc, self, power, order>>

\* P = Group.semidirect_product(N, H, action)
SemidirectProduct(N, H, action) ==
    /\ Idle
    /\ Len(groups) = 2
    /\ groups' = Append(groups, SemidirectProductOf(groups, N, H, action))
    /\ ret' = Call("Group.semidirect_product", 3, <<GroupRef(N), GroupRef(H), action>>,
                   Return(GroupRef(3)))
    /\ UNCHANGED <<pc, self, power, order>>

(***************************************************************************)
(* The specifications.                                                     *)
(***************************************************************************)
\* the values a Group is compared with: each Group, and values that are none
GroupComparands(g) ==
    {GroupRef(h) : h \in DOMAIN groups}
        \cup {I(42), GroupElement(groups[g].element_values[1], g)}

\* the values a GroupElement is compared with: the element of the same label in
\* each group, the first element of its own group, and values that are none
ElementComparands(x) ==
    {GroupElement(x.element, h) : h \in DOMAIN groups}
        \cup {GroupElement(groups[x.group].element_values[1], x.group),
              I(42), GroupRef(x.group)}

GroupCalls ==
    \E g \in DOMAIN groups :
        \/ CallElements(g)
        \/ \E a, b \in Operands(groups[g]) : CallOperation(g, a, b)
        \/ CallIdentity(g)
        \/ \E a \in Operands(groups[g]) : CallInverse(g, a)
        \/ CallOrder(g)
        \/ CallIsAbelian(g)
        \/ \E v \in GroupComparands(g), ne \in BOOLEAN : CallGroupCompare(g, v, ne)

ElementCalls ==
    \/ \E g \in DOMAIN groups : \E x \in ElementOperands(g) :
        \/ \E y \in ElementOperands(g) : CallMul(x, y)
        \/ \E n \in Exponents : CallPow(x, n)
        \/ CallElementInverse(x)
        \/ \E v \in ElementComparands(x), ne \in BOOLEAN : CallElementCompare(x, v, ne)
        \/ ElementOrderStart(x)
    \/ ElementOrderBody
    \/ ElementOrderReturn
    \/ Discard

Constructions ==
    \/ \E factors \in FactorLists(MaxFactors) \ {<<>>} :
        \/ DirectProduct(factors)
        \/ NamedDirectProduct(factors)
    \/ \E N, H \in 1..2 :
        /\ N # H
        /\ \E action \in {Action("negate", Len(groups[N].element_values)), Action("trivial", 0)} :
              SemidirectProduct(N, H, action)

NextCalls == GroupCalls \/ ElementCalls

Next == GroupCalls \/ ElementCalls \/ Constructions

\* the calls and the constructions, on two groups of the fixtures
Spec == Init /\ [][Next]_vars

\* the calls, on two plain groups
CallsSpec == InitCalls /\ [][NextCalls]_vars

\* GroupElement.order() alone, on one plain group.  The program is one thread:
\* once in the loop it keeps taking the loop's steps.
NextOrder ==
    \/ \E g \in DOMAIN groups : \E x \in ElementOperands(g) : ElementOrderStart(x)
    \/ ElementOrderBody
    \/ ElementOrderReturn
    \/ Discard

\* one plain group
InitOrder ==
    /\ groups \in {<<a>> : a \in PlainGroups}
    /\ InitLocals

OrderSpec ==
    /\ InitOrder
    /\ [][NextOrder]_vars
    /\ WF_vars(ElementOrderBody)
    /\ WF_vars(ElementOrderReturn)

(***************************************************************************)
(* Groups in the mathematical sense, and what is said of them.              *)
(***************************************************************************)
Labels(g) == Range(g.element_values)

\* e is a two-sided identity of g's operation
IsNeutral(g, e) ==
    \A x \in Labels(g) : Operation(g, e, x) = x /\ Operation(g, x, e) = x

\* the labels are distinct and the operation is closed and associative over
\* them, with an identity and an inverse of every label
IsGroup(g) ==
    /\ Cardinality(Labels(g)) = Len(g.element_values)
    /\ \A a, b \in Labels(g) : Operation(g, a, b) \in Labels(g)
    /\ \A a, b, c \in Labels(g) :
          Operation(g, Operation(g, a, b), c) = Operation(g, a, Operation(g, b, c))
    /\ \E e \in Labels(g) :
          /\ IsNeutral(g, e)
          /\ \A a \in Labels(g) : \E b \in Labels(g) :
                Operation(g, a, b) = e /\ Operation(g, b, a) = e

TheIdentity(g) == CHOOSE e \in Labels(g) : IsNeutral(g, e)

\* a valid group: its identity_value, when it has one, is the label of its identity
ValidGroup(g) ==
    /\ IsGroup(g)
    /\ g.identity_value \in {None, TheIdentity(g)}

True == Return(B(TRUE))

\* C1: in a valid group G, with its identity_value given or found by
\* G.identity(), every e of G.elements() has e * G.identity() == e and
\* G.identity() * e == e.
C1_IdentityIsNeutral ==
    [][(ret'.call = "identity" /\ ValidGroup(groups[ret'.g])) =>
        LET id == ret'.out.val
            elements == ElementsOf(groups'[ret'.g], ret'.g).v
        IN  \A i \in DOMAIN elements :
                /\ PyEq(groups', Mul(groups', elements[i], id), elements[i]) = True
                /\ PyEq(groups', Mul(groups', id, elements[i]), elements[i]) = True]_vars

\* identity() has found the identity of a valid group, which is not the first label
C1_Witness ==
    /\ ret.call = "identity"
    /\ ValidGroup(groups[ret.g])
    /\ ret.out.val.element = TheIdentity(groups[ret.g])
    /\ ret.out.val.element # groups[ret.g].element_values[1]

\* the label inverse() was asked about, and whether x composes to the cached
\* identity with it on both sides
InverseArgument == IF ret.call = "inverse" THEN ret.args[1] ELSE ret.args[1].element
ComposesToIdentity(g, a, x) ==
    /\ Operation(g, a, x) = g.identity_value
    /\ Operation(g, x, a) = g.identity_value

\* C2: inverse(a) returns the first label of the list that composes to the
\* identity with a on both sides, as a GroupElement of the same group; it raises
\* the inverse-not-found error, naming a, exactly when no label does; in a
\* valid group e * e.inverse() == identity and e.inverse() * e == identity.
C2_Inverse ==
    ret.call \in {"inverse", "x.inverse"} =>
        LET g == groups[ret.g]
            a == InverseArgument
            ev == g.element_values
        IN  /\ (ret.out.exc # "") <=> (\A i \in DOMAIN ev : ~ComposesToIdentity(g, a, ev[i]))
            /\ ret.out.exc # "" => ret.out.exc = "ValueError" /\ ret.out.msg = a
            /\ ret.out.exc = "" =>
                  \E i \in DOMAIN ev :
                      /\ ret.out.val = GroupElement(ev[i], ret.g)
                      /\ ComposesToIdentity(g, a, ev[i])
                      /\ \A j \in 1..(i - 1) : ~ComposesToIdentity(g, a, ev[j])
            /\ ValidGroup(g) =>
                  /\ ret.out.exc = ""
                  /\ PyEq(groups, Mul(groups, GroupElement(a, ret.g), ret.out.val),
                          GroupElement(IdentityValue(g), ret.g)) = True
                  /\ PyEq(groups, Mul(groups, ret.out.val, GroupElement(a, ret.g)),
                          GroupElement(IdentityValue(g), ret.g)) = True

\* inverse() has returned an inverse that is not the label itself, in a valid group
C2_Witness ==
    /\ ret.call = "inverse"
    /\ ValidGroup(groups[ret.g])
    /\ ret.out.exc = ""
    /\ ret.out.val.element # ret.args[1]

\* C3: in a valid group, e**0 == identity, e**1 == e, e**(-1) == e.inverse(),
\* e**(m+n) == e**m * e**n for m, n in -2..3; for n > 0 the power is e
\* multiplied by itself n - 1 times, for n < 0 it is e.inverse() ** (-n).
C3_ExponentLaws ==
    (ret.call = "**" /\ ValidGroup(groups[ret.g])) =>
        LET e == ret.args[1]
            n == ret.args[2].n
            inverse == ElementInverse(groups, e)
        IN  /\ ret.out.exc = ""
            /\ n = 0 => PyEq(groups, ret.out.val,
                             GroupElement(IdentityValue(groups[ret.g]), ret.g)) = True
            /\ n = 1 => PyEq(groups, ret.out.val, e) = True
            /\ n = 2 => ret.out.val = Mul(groups, e, e)
            /\ n = 3 => ret.out.val = Mul(groups, Mul(groups, e, e), e)
            /\ n = -1 => PyEq(groups, ret.out.val, inverse.val) = True
            /\ n < 0 => ret.out = Pow(groups, inverse.val, -n)
            /\ \A m \in Exponents :
                  PyEq(groups, Pow(groups, e, m + n).val,
                       Mul(groups, Pow(groups, e, m).val, ret.out.val)) = True

\* a negative power of an element of order above 2 has been taken in a valid group
C3_Witness ==
    /\ ret.call = "**"
    /\ ValidGroup(groups[ret.g])
    /\ ret.args[2].n = -2
    /\ ret.out.val # ret.args[1]
    /\ ret.out.val.element # IdentityValue(groups[ret.g])

\* C4: G1 == G2 iff their labels are equal as sets, their cached identity
\* values are equal (both unset counts as equal) and their operations agree
\* on every ordered pair of labels; so two groups whose lists are
\* permutations of each other, equal otherwise, compare equal.
C4_GroupEquality ==
    (ret.call \in {"==", "!="} /\ ret.args[1].k = "Group" /\ ret.args[2].k = "Group") =>
        LET a == groups[ret.args[1].group]
            b == groups[ret.args[2].group]
            equal == /\ Labels(a) = Labels(b)
                     /\ a.identity_value = b.identity_value
                     /\ \A x, y \in Labels(a) :
                           Apply(a.operation, x, y) = Apply(b.operation, x, y)
        IN  ret.out = Return(B(IF ret.call = "==" THEN equal ELSE ~equal))

\* two groups whose lists differ in order, and whose lambdas differ, have compared equal
C4_Witness ==
    /\ ret.call = "=="
    /\ ret.args[2].k = "Group"
    /\ ret.out = True
    /\ groups[ret.args[1].group].element_values # groups[ret.args[2].group].element_values
    /\ groups[ret.args[1].group].operation # groups[ret.args[2].group].operation

\* the factors of the construction last called, as they are now
FactorsOfCall == [i \in DOMAIN ret.args |-> groups[ret.args[i].group]]

\* the tuples with one label of each group of the list
AllTuples(fs) ==
    {T(t) : t \in {u \in [DOMAIN fs -> UNION {Labels(fs[i]) : i \in DOMAIN fs}] :
                      \A i \in DOMAIN fs : u[i] \in Labels(fs[i])}}

RECURSIVE ProductOfOrders(_)
ProductOfOrders(fs) ==
    IF fs = <<>> THEN 1 ELSE OrderOf(fs[1]) * ProductOfOrders(Tail(fs))

\* C5: for valid groups A, B, ..., Group.direct_product(A, B, ...) is a Group
\* whose labels are all the tuples of one label per factor, in the factors'
\* order; whose operation applies factor i's operation to component i; whose
\* order() is the product of the factors' orders; whose identity() label is the
\* tuple of the factors' identity labels; and which is abelian when every
\* factor is.
C5_DirectProduct ==
    (ret.call = "Group.direct_product"
        /\ \A i \in DOMAIN ret.args : ValidGroup(FactorsOfCall[i])) =>
        LET fs == FactorsOfCall
            P == groups[ret.out.val.group]
        IN  /\ P.cls = "Group"
            /\ Labels(P) = AllTuples(fs)
            /\ OrderOf(P) = ProductOfOrders(fs)
            /\ \A a, b \in Labels(P) :
                  Operation(P, a, b)
                      = T([i \in DOMAIN fs |-> Operation(fs[i], a.v[i], b.v[i])])
            /\ IdentityValue(P) = T([i \in DOMAIN fs |-> TheIdentity(fs[i])])
            /\ (\A i \in DOMAIN fs : IsAbelian(fs[i])) => IsAbelian(P)

\* the direct product of two valid groups of different orders has been built,
\* the identity of one of them found by the search on the way
C5_Witness ==
    /\ ret.call = "Group.direct_product"
    /\ Len(ret.args) >= 2
    /\ \A i \in DOMAIN ret.args : ValidGroup(FactorsOfCall[i])
    /\ OrderOf(FactorsOfCall[1]) # OrderOf(FactorsOfCall[2])
    /\ FactorsOfCall[1].element_values[1] # TheIdentity(FactorsOfCall[1])

\* the semidirect product of the tests: C4 under sum mod 4, C2 under sum mod 2,
\* action(h, n) = n if h == 0 else (4 - n) % 4
IsDihedralCall ==
    /\ ret.call = "Group.semidirect_product"
    /\ groups[ret.args[1].group].operation = Lambda("add", 4)
    /\ Labels(groups[ret.args[1].group]) = Range(Ascending(4))
    /\ groups[ret.args[2].group].operation = Lambda("add", 2)
    /\ Labels(groups[ret.args[2].group]) = Range(Ascending(2))
    /\ ret.args[3] = Action("negate", 4)

\* C6: Group.semidirect_product(N, H, action) is a Group over all the pairs
\* (n, h), with (n1,h1)(n2,h2) = (N.operation(n1, action(h1, n2)),
\* H.operation(h1, h2)) and no identity precomputed; for the C4, C2 and action
\* of the tests it has order 8, is not abelian, and with e its identity found
\* by the search, r = (1,0), s = (0,1): r**4 == e, s**2 == e, r*s != s*r.
C6_SemidirectProduct ==
    ret.call = "Group.semidirect_product" =>
        LET N == groups[ret.args[1].group]
            H == groups[ret.args[2].group]
            action == ret.args[3]
            P == groups[ret.out.val.group]
            found == Touch(groups, ret.out.val.group)
            e == GroupElement(found[ret.out.val.group].identity_value, ret.out.val.group)
            r == GroupElement(T(<<I(1), I(0)>>), ret.out.val.group)
            s == GroupElement(T(<<I(0), I(1)>>), ret.out.val.group)
        IN  /\ P.cls = "Group"
            /\ P.identity_value = None
            /\ Labels(P) = AllTuples(<<N, H>>)
            /\ OrderOf(P) = OrderOf(N) * OrderOf(H)
            /\ \A a, b \in Labels(P) :
                  Operation(P, a, b)
                      = T(<<Operation(N, a.v[1], ApplyAction(action, a.v[2], b.v[1])),
                            Operation(H, a.v[2], b.v[2])>>)
            /\ IsDihedralCall =>
                  /\ OrderOf(P) = 8
                  /\ ~IsAbelian(P)
                  /\ e.element = IdentitySearch(P)
                  /\ PyEq(found, Pow(found, r, 4).val, e) = True
                  /\ PyEq(found, Pow(found, s, 2).val, e) = True
                  /\ PyNe(found, Mul(found, r, s), Mul(found, s, r)) = True

\* the semidirect product of the tests has been built
C6_Witness == IsDihedralCall /\ ret.out.exc = ""

\* the k-th power of x by repeated multiplication, x * x * ... * x
RECURSIVE Product(_, _, _)
Product(gs, x, k) == IF k = 1 THEN x ELSE Mul(gs, Product(gs, x, k - 1), x)

IsIdentityElement(gs, x) ==
    PyEq(gs, x, GroupElement(IdentityValue(gs[x.group]), x.group)) = True

\* C7, while the loop runs in a valid group: the count is the number of factors
\* of the running product, no smaller power is the identity, and the count stays
\* within the number of labels; the identity never enters the loop body
C7_LoopInvariant ==
    (pc = "order" /\ ValidGroup(groups[self.group])) =>
        /\ order \in 1..Len(groups[self.group].element_values)
        /\ power = Product(groups, self, order)
        /\ \A j \in 1..(order - 1) : ~IsIdentityElement(groups, Product(groups, self, j))
        /\ IsIdentityElement(groups, self) => order = 1 /\ ~ENABLED ElementOrderBody

\* C7, on return in a valid group: the smallest positive k with e**k the identity;
\* 1 for the identity, 4 for the element 1 of the cyclic group of order 4
C7_Result ==
    (pc = "idle" /\ ret.call = "x.order" /\ ValidGroup(groups[ret.g])) =>
        LET e == ret.args[1]
            k == ret.out.val.n
        IN  /\ ret.out.exc = "" /\ ret.out.val.k = "int" /\ k >= 1
            /\ IsIdentityElement(groups, Pow(groups, e, k).val)
            /\ \A j \in 1..(k - 1) : ~IsIdentityElement(groups, Pow(groups, e, j).val)
            /\ IsIdentityElement(groups, e) => k = 1
            /\ (e.element = I(1) /\ groups[ret.g].operation = Lambda("add", 4)
                    /\ Labels(groups[ret.g]) = Range(Ascending(4))) => k = 4

\* C7: for every element e of a valid finite group, e.order() terminates and
\* returns the smallest positive k with e**k the identity; the identity returns
\* 1 without entering the loop body; the element 1 of the cyclic group of
\* order 4 returns 4.
C7_ElementOrder ==
    /\ [](C7_LoopInvariant /\ C7_Result)
    /\ (pc = "order" /\ ValidGroup(groups[self.group])) ~> (pc = "idle")

\* order() has returned the number of labels of a valid group of more than two
C7_Witness ==
    /\ pc = "idle"
    /\ ret.call = "x.order"
    /\ ValidGroup(groups[ret.g])
    /\ ret.out.val = I(Len(groups[ret.g].element_values))
    /\ ret.out.val.n > 2

\* a factor lacks a name: a plain Group, or a NamedGroup constructed without one
LacksName(g) == g.name \in {NoAttr, None}

RECURSIVE JoinedNames(_, _)
JoinedNames(fs, i) ==
    LET name == IF LacksName(fs[i]) THEN "Group" \o ToString(i - 1) ELSE fs[i].name.s
    IN  IF i = Len(fs) THEN name ELSE name \o " x " \o JoinedNames(fs, i + 1)

\* C8: NamedGroup.direct_product(g0, g1, ...) returns a NamedGroup with the
\* elements, operation and identity of Group.direct_product of the factors,
\* named by the factors' names joined by the multiplication sign, a factor
\* that lacks a name giving the placeholder of its position instead.
C8_NamedDirectProduct ==
    ret.call = "NamedGroup.direct_product" =>
        /\ ret.out.exc = ""
        /\ LET fs == FactorsOfCall
               P == groups[ret.out.val.group]
               D == DirectProductOf("Group", groups, [i \in DOMAIN ret.args |-> ret.args[i].group])
           IN  /\ P.cls = "NamedGroup"
               /\ P.element_values = D.element_values
               /\ P.operation = D.operation
               /\ P.identity_value = D.identity_value
               /\ P.name = Str(JoinedNames(fs, 1))

\* C8, for factors none of which is a NamedGroup constructed without a name
C8_WhenNoNamedGroupLacksItsName ==
    (ret.call = "NamedGroup.direct_product"
        /\ \A i \in DOMAIN ret.args : FactorsOfCall[i].name # None)
    => C8_NamedDirectProduct

\* whether v is foreign to the left operand of a comparison
ForeignComparison ==
    /\ ret.call \in {"==", "!="}
    /\ ret.args[2].k # ret.args[1].k

\* C9: a Group compared with a value that is no Group, and a GroupElement
\* compared with a value that is no GroupElement, are unequal (== is false,
\* != is true) and the comparison raises no error.
C9_ForeignComparisons ==
    ForeignComparison => ret.out = Return(B(ret.call = "!="))

\* C9, for the left operand a Group and the right one none of the module's classes
C9_GroupAgainstBuiltin ==
    (ForeignComparison /\ ret.args[1].k = "Group" /\ ret.args[2].k # "GroupElement")
        => ret.out = Return(B(ret.call = "!="))

\* the label the identity search finds in g: the first of the list that is a
\* two-sided identity
IsFirstNeutral(g, e) ==
    \E i \in DOMAIN g.element_values :
        /\ g.element_values[i] = e
        /\ IsNeutral(g, e)
        /\ \A j \in 1..(i - 1) : ~IsNeutral(g, g.element_values[j])

\* C10: over the calls and the constructions, a Group's labels and operation
\* never change, and its cached identity value changes at most once, from
\* unset to the label the identity search finds; a value given at
\* construction or cached already is what identity() returns, and is never
\* overwritten, so that repeated identity() calls return the same label.
C10_OnlyTheCacheChanges ==
    [][\A g \in DOMAIN groups :
          /\ g \in DOMAIN groups'
          /\ groups'[g].element_values = groups[g].element_values
          /\ groups'[g].operation = groups[g].operation
          /\ groups'[g].cls = groups[g].cls /\ groups'[g].name = groups[g].name
          /\ groups[g].identity_value # None =>
                groups'[g].identity_value = groups[g].identity_value
          /\ groups'[g].identity_value # groups[g].identity_value =>
                IsFirstNeutral(groups[g], groups'[g].identity_value)
          /\ (ret'.call = "identity" /\ ret'.g = g) =>
                /\ ret'.out = Return(GroupElement(groups'[g].identity_value, g))
                /\ groups[g].identity_value # None =>
                      ret'.out.val.element = groups[g].identity_value
                /\ groups[g].identity_value = None =>
                      \/ IsFirstNeutral(groups[g], ret'.out.val.element)
                      \/ /\ ret'.out.val.element = None
                         /\ \A x \in Labels(groups[g]) : ~IsNeutral(groups[g], x)]_vars

\* identity() has returned the identity_value a group was constructed with,
\* which the search would not have found
C10_Witness ==
    /\ ret.call = "identity"
    /\ ret.out.val.element # None
    /\ ~IsNeutral(groups[ret.g], ret.out.val.element)
    /\ \E x \in Labels(groups[ret.g]) : IsNeutral(groups[ret.g], x)
=============================================================================
